---------------------------- MODULE Spec2Model ----------------------------
(***************************************************************************)
(* A model of tinyspline's B-spline core (src/library/tinyspline.c):      *)
(* construction, knot setup, copy, de Boor evaluation, knot insertion,    *)
(* resizing, splitting and decomposition into Bezier segments.            *)
(*                                                                         *)
(* Scalars.  A C float is modelled by an exact rational <<num, den>> in   *)
(* lowest terms with den > 0; <<0, 0>> stands for a non-finite float (the *)
(* result of a division by zero and whatever is computed from it).        *)
(* Rounding of single precision arithmetic is not modelled.               *)
(*                                                                         *)
(* Buffers.  A float buffer is a sequence of scalars; the C index i is    *)
(* the sequence index i + 1.  A buffer of the program always has at least *)
(* one element, so the empty sequence stands for the NULL pointer.        *)
(*                                                                         *)
(* Heap.  malloc and realloc may fail: the parameter al of the operators  *)
(* counts down to the allocation that fails (0: none fails).  Fresh       *)
(* memory holds one of the images of Garbage.  realloc may move the block *)
(* (parameter mv).                                                         *)
(***************************************************************************)
EXTENDS Integers, Sequences, FiniteSets, TLC

(***************************************************************************)
(* Bounds of the model.                                                    *)
(***************************************************************************)
\* largest degree passed to ts_bspline_new
MaxDeg == 2
\* largest dimension passed to ts_bspline_new
MaxDim == 2
\* largest number of control points passed to ts_bspline_new
MaxNewCtrlp == 4
\* largest number of control points a spline may have when an operation starts
MaxCtrlp == 5
\* largest number of knots inserted by one call of ts_bspline_insert_knot
MaxInsert == 3
\* largest |n| passed to ts_bspline_resize
MaxResize == 2
\* number of calls in one run of the program
MaxOps == 2
\* number of images fresh memory may hold
NumImages == 4
\* a call may fail at any of its first MaxFail allocations
MaxFail == 3

\* largest number of calls of the round trip
MaxEqualsOps == 4

(***************************************************************************)
(* size_t and int.  The width of size_t is SizeBits; every size of the     *)
(* model is far below 2^SizeBits, as it is far below 2^64 in the program.  *)
(***************************************************************************)
SizeMod == 2^30

\* the value of a size_t expression: reduction modulo 2^width
Wrap(x) == x % SizeMod

\* conversion of a size_t to int
ToInt(x) == IF x >= SizeMod \div 2 THEN x - SizeMod ELSE x

(***************************************************************************)
(* tsError (tinyspline.h).  The code relies only on errors being negative. *)
(***************************************************************************)
TS_SUCCESS == 0
TS_MALLOC == -1
TS_DIM_ZERO == -2
TS_DEG_GE_NCTRLP == -3
TS_U_UNDEFINED == -4
TS_MULTIPLICITY == -5
TS_INPUT_EQ_OUTPUT == -6
TS_OVER_UNDERFLOW == -7

\* tsBSplineType (tinyspline.h)
BSplineTypes == {"TS_NONE", "TS_OPENED", "TS_CLAMPED"}

(***************************************************************************)
(* Rational arithmetic standing for float arithmetic.                      *)
(***************************************************************************)
NaN == <<0, 0>>

IsNaN(x) == x[2] = 0

Abs(n) == IF n < 0 THEN -n ELSE n

RECURSIVE GCD(_, _)
GCD(a, b) == IF b = 0 THEN a ELSE GCD(b, a % b)

\* the rational n/d in lowest terms
Rat(n, d) ==
    IF d = 0 THEN NaN
    ELSE LET g == GCD(Abs(n), Abs(d))
             sg == IF d < 0 THEN -1 ELSE 1
         IN  <<sg * (n \div g), sg * (d \div g)>>

Zero == <<0, 1>>
One == <<1, 1>>

RNeg(x) == <<-x[1], x[2]>>

RAbs(x) == <<Abs(x[1]), x[2]>>

RAdd(x, y) ==
    IF IsNaN(x) \/ IsNaN(y) THEN NaN
    ELSE LET g == GCD(x[2], y[2])
         IN  Rat(x[1] * (y[2] \div g) + y[1] * (x[2] \div g), x[2] * (y[2] \div g))

RSub(x, y) == RAdd(x, RNeg(y))

RMul(x, y) ==
    IF IsNaN(x) \/ IsNaN(y) THEN NaN
    ELSE LET g1 == GCD(Abs(x[1]), y[2])
             g2 == GCD(Abs(y[1]), x[2])
         IN  <<(x[1] \div g1) * (y[1] \div g2), (x[2] \div g2) * (y[2] \div g1)>>

\* x / y; a division by zero gives a non-finite float
RDiv(x, y) ==
    IF IsNaN(x) \/ IsNaN(y) \/ y[1] = 0 THEN NaN
    ELSE RMul(x, IF y[1] < 0 THEN <<-y[2], -y[1]>> ELSE <<y[2], y[1]>>)

\* a/b <= c/d for b, d > 0, by the continued fractions of both sides
RECURSIVE FracLeq(_, _, _, _)
FracLeq(a, b, c, d) ==
    LET q1 == a \div b
        q2 == c \div d
        r1 == a % b
        r2 == c % d
    IN  IF q1 # q2 THEN q1 < q2
        ELSE IF r1 = 0 THEN TRUE
        ELSE IF r2 = 0 THEN FALSE
        ELSE FracLeq(d, r2, b, r1)

\* x <= y; every comparison with a non-finite float is false
RLeq(x, y) == ~IsNaN(x) /\ ~IsNaN(y) /\ FracLeq(x[1], x[2], y[1], y[2])

\* x < y
RLess(x, y) == RLeq(x, y) /\ x # y

(***************************************************************************)
(* FloatCompare.  The tolerances are defined in tinyspline.h.              *)
(***************************************************************************)
FLT_MAX_ABS_ERROR == <<1, 10000000>>
FLT_MAX_REL_ERROR == <<1, 100000>>

\* fault: ts_fequals without the test of the relative error
ts_fequals_absolute(x, y) == RLeq(RAbs(RSub(x, y)), FLT_MAX_ABS_ERROR)

\* ts_fequals; TRUE stands for the return value 1
ts_fequals(x, y) ==
    IF RLeq(RAbs(RSub(x, y)), FLT_MAX_ABS_ERROR) THEN TRUE
    ELSE LET r == IF RLess(RAbs(y), RAbs(x))
                  THEN RAbs(RDiv(RSub(x, y), x))
                  ELSE RAbs(RDiv(RSub(x, y), y))
         IN  RLeq(r, FLT_MAX_REL_ERROR)

(***************************************************************************)
(* The heap.                                                               *)
(***************************************************************************)
NULL == <<>>

Images == 0 .. NumImages - 1

\* the scalar that image g of fresh memory holds at index i (from 1):
\* image 0 is zeroed memory, image 1 holds 0, 1, 2, ..., image 2 holds
\* 0, 0, 1, 1, 2, 2, ..., the others are neither constant nor sorted
Garbage(g, i) ==
    IF g = 0 THEN Zero
    ELSE IF g = 1 THEN <<i - 1, 1>>
    ELSE IF g = 2 THEN <<(i - 1) \div 2, 1>>
    ELSE <<(i * i + g) % 5, 1>>

\* the heap after an allocation that did not fail
AllocNext(al) == IF al = 0 THEN 0 ELSE al - 1

\* malloc(len * sizeof(float)): ok is FALSE when NULL is returned
Malloc(len, al, g) ==
    IF al = 1 THEN [ok |-> FALSE, mem |-> NULL, al |-> 0]
    ELSE [ok |-> TRUE, mem |-> [i \in 1 .. len |-> Garbage(g, i)], al |-> AllocNext(al)]

\* realloc(buf, len * sizeof(float)): the first min(old, len) floats are kept
Realloc(buf, len, al, g) ==
    IF al = 1 THEN [ok |-> FALSE, mem |-> NULL, al |-> 0]
    ELSE [ok |-> TRUE,
          mem |-> [i \in 1 .. len |-> IF i <= Len(buf) THEN buf[i] ELSE Garbage(g, i)],
          al |-> AllocNext(al)]

\* memmove(dst + doff, src + soff, cnt * sizeof(float)) and, for blocks that
\* do not overlap, memcpy: the buffer dst after the call
MemMove(dst, doff, src, soff, cnt) ==
    [i \in 1 .. Len(dst) |->
        IF doff < i /\ i <= doff + cnt THEN src[soff + (i - doff)] ELSE dst[i]]

(***************************************************************************)
(* tsBSpline and tsDeBoorNet.                                              *)
(***************************************************************************)
\* ts_bspline_default: the empty state
ts_bspline_default ==
    [deg |-> 0, order |-> 0, dim |-> 0, n_ctrlp |-> 0, n_knots |-> 0,
     ctrlp |-> NULL, knots |-> NULL]

\* ts_bspline_free: the buffers are given back, the fields are reset
ts_bspline_free(bspline) == ts_bspline_default

\* ts_deboornet_default; result is an offset into points, -1 for NULL
ts_deboornet_default ==
    [u |-> Zero, k |-> 0, s |-> 0, h |-> 0, dim |-> 0, n_points |-> 0,
     points |-> NULL, result |-> -1]

\* ts_deboornet_free
ts_deboornet_free(deBoorNet) == ts_deboornet_default

(***************************************************************************)
(* KnotSetup: the part of ts_bspline_setup_knots that writes the knots of  *)
(* result.                                                                 *)
(***************************************************************************)
FillKnots(result, type) ==
    IF type = "TS_NONE" THEN result
    ELSE LET n_knots == result.n_knots
             deg == result.deg
             order == result.order
         IN  IF type = "TS_OPENED"
             THEN [result EXCEPT !.knots =
                     [i \in 1 .. n_knots |-> Rat(i - 1, Wrap(n_knots - 1))]]
             ELSE [result EXCEPT !.knots =
                     [i \in 1 .. n_knots |->
                         IF i - 1 < order THEN Zero
                         ELSE IF i - 1 < Wrap(n_knots - order)
                              THEN Rat(1 + (i - 1 - order), Wrap(n_knots - (2 * deg) - 1))
                              ELSE One]]

(***************************************************************************)
(* ts_bspline_new.  The result is [err, out, al]: the return value, the    *)
(* value of *bspline and the heap.                                         *)
(***************************************************************************)
ts_bspline_new(deg, dim, n_ctrlp, type, al, g) ==
    IF dim < 1 THEN [err |-> TS_DIM_ZERO, out |-> ts_bspline_default, al |-> al]
    ELSE IF deg >= n_ctrlp
    THEN [err |-> TS_DEG_GE_NCTRLP, out |-> ts_bspline_default, al |-> al]
    ELSE LET order == Wrap(deg + 1)
             n_knots == Wrap(n_ctrlp + order)
             m1 == Malloc(n_ctrlp * dim, al, g)
             m2 == Malloc(n_knots, m1.al, g)
         IN  IF order < deg \/ n_knots < n_ctrlp
             THEN [err |-> TS_OVER_UNDERFLOW, out |-> ts_bspline_default, al |-> al]
             ELSE IF ~m1.ok
             THEN [err |-> TS_MALLOC, out |-> ts_bspline_default, al |-> m1.al]
             ELSE IF ~m2.ok
             THEN [err |-> TS_MALLOC, out |-> ts_bspline_default, al |-> m2.al]
             ELSE [err |-> TS_SUCCESS,
                   out |-> FillKnots([deg |-> deg, order |-> order, dim |-> dim,
                                      n_ctrlp |-> n_ctrlp, n_knots |-> n_knots,
                                      ctrlp |-> m1.mem, knots |-> m2.mem], type),
                   al |-> m2.al]

(***************************************************************************)
(* ts_bspline_copy.  alias: original and copy are the same object.  The   *)
(* result is [err, out, al]; out is the value of *copy.                    *)
(***************************************************************************)
ts_bspline_copy(original, alias, al, g) ==
    IF alias THEN [err |-> TS_INPUT_EQ_OUTPUT, out |-> original, al |-> al]
    ELSE LET m1 == Malloc(original.n_ctrlp * original.dim, al, g)
             m2 == Malloc(original.n_knots, m1.al, g)
         IN  IF ~m1.ok
             THEN [err |-> TS_MALLOC, out |-> ts_bspline_default, al |-> m1.al]
             ELSE IF ~m2.ok
             THEN [err |-> TS_MALLOC, out |-> ts_bspline_default, al |-> m2.al]
             ELSE [err |-> TS_SUCCESS,
                   out |-> [deg |-> original.deg, order |-> original.order,
                            dim |-> original.dim, n_ctrlp |-> original.n_ctrlp,
                            n_knots |-> original.n_knots,
                            ctrlp |-> MemMove(m1.mem, 0, original.ctrlp, 0,
                                              original.n_ctrlp * original.dim),
                            knots |-> MemMove(m2.mem, 0, original.knots, 0,
                                              original.n_knots)],
                   al |-> m2.al]

(***************************************************************************)
(* ts_bspline_setup_knots.  alias: original and result are the same       *)
(* object.  The result is [err, out, al]; out is the value of *result.     *)
(***************************************************************************)
ts_bspline_setup_knots(original, type, alias, al, g) ==
    IF alias THEN [err |-> TS_SUCCESS, out |-> FillKnots(original, type), al |-> al]
    ELSE LET c == ts_bspline_copy(original, FALSE, al, g)
         IN  IF c.err < 0 THEN c
             ELSE [err |-> TS_SUCCESS, out |-> FillKnots(c.out, type), al |-> c.al]

(***************************************************************************)
(* Evaluator: ts_bspline_evaluate.                                         *)
(***************************************************************************)
\* step 1, the loop from index k on with s knots counted: <<k, s>> at its end
RECURSIVE FindSpan(_, _, _, _, _)
FindSpan(knots, n_knots, u, k, s) ==
    IF k >= n_knots THEN <<k, s>>
    ELSE IF ts_fequals(u, knots[k + 1]) THEN FindSpan(knots, n_knots, u, k + 1, s + 1)
    ELSE IF RLess(u, knots[k + 1]) THEN <<k, s>>
    ELSE FindSpan(knots, n_knots, u, k + 1, s)

\* the loop over d: st is [points, idx_l, idx_r, idx_to]
RECURSIVE DeBoorD(_, _, _, _)
DeBoorD(st, a, d, dim) ==
    IF d >= dim THEN st
    ELSE DeBoorD([points |-> [st.points EXCEPT ![st.idx_to + 1] =
                                RAdd(RMul(RSub(One, a), st.points[st.idx_l + 1]),
                                     RMul(a, st.points[st.idx_r + 1]))],
                  idx_l |-> st.idx_l + 1,
                  idx_r |-> st.idx_r + 1,
                  idx_to |-> st.idx_to + 1], a, d + 1, dim)

\* the loop over i in row r
RECURSIVE DeBoorI(_, _, _, _, _, _)
DeBoorI(st, bspline, u, r, i, lst) ==
    IF i > lst THEN st
    ELSE LET ui == bspline.knots[i + 1]
             a == RDiv(RSub(u, ui), RSub(bspline.knots[i + bspline.deg - r + 1 + 1], ui))
         IN  DeBoorI(DeBoorD(st, a, 0, bspline.dim), bspline, u, r, i + 1, lst)

\* the loop over r
RECURSIVE DeBoorR(_, _, _, _, _, _, _)
DeBoorR(st, bspline, u, r, h, fst, lst) ==
    IF r > h THEN st
    ELSE LET t == DeBoorI(st, bspline, u, r, fst + r, lst)
         IN  DeBoorR([points |-> t.points,
                      idx_l |-> t.idx_l + bspline.dim,
                      idx_r |-> t.idx_r + bspline.dim,
                      idx_to |-> t.idx_to], bspline, u, r + 1, h, fst, lst)

\* fault: EvaluateEnd that copies from the first control point at both ends
EvaluateEndFirst(bspline, head, ret, n_points, from, m) ==
    IF ~m.ok
    THEN [ret |-> TS_MALLOC,
          net |-> ts_deboornet_free([ts_deboornet_default EXCEPT
                                       !.u = head.u, !.k = head.k, !.s = head.s,
                                       !.h = head.h, !.dim = head.dim]),
          al |-> m.al]
    ELSE [ret |-> ret,
          net |-> [u |-> head.u, k |-> head.k, s |-> head.s, h |-> head.h,
                   dim |-> head.dim, n_points |-> n_points,
                   points |-> MemMove(m.mem, 0, bspline.ctrlp, 0, n_points * head.dim),
                   result |-> (n_points - 1) * head.dim],
          al |-> m.al]

\* step 4 for s == order: the net of n_points control points from index from
EvaluateEnd(bspline, head, ret, n_points, from, m) ==
    IF ~m.ok
    THEN [ret |-> TS_MALLOC,
          net |-> ts_deboornet_free([ts_deboornet_default EXCEPT
                                       !.u = head.u, !.k = head.k, !.s = head.s,
                                       !.h = head.h, !.dim = head.dim]),
          al |-> m.al]
    ELSE [ret |-> ret,
          net |-> [u |-> head.u, k |-> head.k, s |-> head.s, h |-> head.h,
                   dim |-> head.dim, n_points |-> n_points,
                   points |-> MemMove(m.mem, 0, bspline.ctrlp, from, n_points * head.dim),
                   result |-> (n_points - 1) * head.dim],
          al |-> m.al]

\* step 4 for s <= deg: the net of the de Boor algorithm in the block m
EvaluateDeBoor(bspline, head, fst, lst, N, n_points, m) ==
    IF ~m.ok
    THEN [ret |-> TS_MALLOC,
          net |-> ts_deboornet_free([ts_deboornet_default EXCEPT
                                       !.u = head.u, !.k = head.k, !.s = head.s,
                                       !.h = head.h, !.dim = head.dim,
                                       !.n_points = n_points]),
          al |-> m.al]
    ELSE [ret |-> 0,
          net |-> [u |-> head.u, k |-> head.k, s |-> head.s, h |-> head.h,
                   dim |-> head.dim, n_points |-> n_points,
                   points |-> DeBoorR([points |-> MemMove(m.mem, 0, bspline.ctrlp,
                                                          fst * head.dim, N * head.dim),
                                       idx_l |-> 0, idx_r |-> head.dim,
                                       idx_to |-> N * head.dim],
                                      bspline, head.u, 1, head.h, fst, lst).points,
                   result |-> (n_points - 1) * head.dim],
          al |-> m.al]

\* step 4: head is the net after step 3
EvaluateNet(bspline, head, al, g) ==
    LET deg == bspline.deg
        dim == bspline.dim
        k == head.k
        s == head.s
        N == (k - s) - (k - deg) + 1
    IN  IF s > bspline.order
        THEN [ret |-> TS_MULTIPLICITY,
              net |-> ts_deboornet_free([ts_deboornet_default EXCEPT
                                           !.u = head.u, !.k = k, !.s = s,
                                           !.h = head.h, !.dim = dim]),
              al |-> al]
        ELSE IF s = bspline.order
        THEN IF k = deg \/ k = Wrap(bspline.n_knots - 1)
             THEN EvaluateEnd(bspline, head, 1, 1,
                              IF k = deg THEN 0 ELSE Wrap(k - s) * dim,
                              Malloc(dim, al, g))
             ELSE EvaluateEnd(bspline, head, 2, 2, Wrap(k - s) * dim,
                              Malloc(2 * dim, al, g))
        ELSE EvaluateDeBoor(bspline, head, k - deg, k - s, N, (N * (N + 1)) \div 2,
                            Malloc(((N * (N + 1)) \div 2) * dim, al, g))

\* fault: EvaluateUndefined without the test 2c) at the right end of the domain
EvaluateUndefinedLeft(bspline, ks) ==
    \/ ks[1] = 0
    \/ ks[1] = bspline.n_knots /\ ks[2] = 0
    \/ ks[2] <= bspline.deg /\ ks[1] <= bspline.deg

\* step 2: bspline is not defined at u; ks = <<k, s>> is the outcome of step 1
EvaluateUndefined(bspline, ks) ==
    \/ ks[1] = 0
    \/ ks[1] = bspline.n_knots /\ ks[2] = 0
    \/ /\ ks[2] <= bspline.deg
       /\ \/ ks[1] <= bspline.deg
          \/ ks[1] > Wrap(bspline.n_knots - bspline.deg + ks[2] - 1)

\* step 3: the values of the net that are known before step 4
EvaluateHead(bspline, u, ks) ==
    [u |-> IF ts_fequals(u, bspline.knots[ks[1]]) THEN bspline.knots[ks[1]] ELSE u,
     k |-> ks[1] - 1,
     s |-> ks[2],
     h |-> IF bspline.deg < ks[2] THEN 0 ELSE bspline.deg - ks[2],
     dim |-> bspline.dim]

\* steps 2 and 3: ks = <<k, s>> is the outcome of step 1
EvaluateAt(bspline, u, ks, al, g) ==
    IF EvaluateUndefined(bspline, ks)
    THEN [ret |-> TS_U_UNDEFINED,
          net |-> ts_deboornet_free([ts_deboornet_default EXCEPT
                                       !.k = ks[1], !.s = ks[2]]),
          al |-> al]
    ELSE EvaluateNet(bspline, EvaluateHead(bspline, u, ks), al, g)

\* step 4c): the turns of the loops over r and i, each with the index j of
\* the knot on the right of its denominator knots[j] - knots[i]
DeBoorSteps(bspline, head) ==
    UNION {{[r |-> r, i |-> i, j |-> i + bspline.deg - r + 1] :
               i \in (head.k - bspline.deg) + r .. head.k - head.s} :
           r \in 1 .. head.h}

\* The result is [ret, net, al]: the return value (0, 1, 2 or an error), the
\* value of *deBoorNet and the heap.
ts_bspline_evaluate(bspline, u, al, g) ==
    EvaluateAt(bspline, u, FindSpan(bspline.knots, bspline.n_knots, u, 0, 0), al, g)

\* the knot vector of bspline is weakly increasing
Sorted(bspline) ==
    \A i \in 1 .. bspline.n_knots - 1 : RLeq(bspline.knots[i], bspline.knots[i + 1])

\* the point deBoorNet->result refers to
NetResult(net) == SubSeq(net.points, net.result + 1, net.result + net.dim)

(***************************************************************************)
(* Resizer: ts_bspline_resize.  alias: bspline and resized are the same   *)
(* object.  mv = <<c, k>>: realloc moves the control points (c) and the   *)
(* knots (k) to another block.  The result is [err, out, al]; out is the   *)
(* value of *resized.                                                      *)
(*                                                                         *)
(* In place, the pointers to_ctrlp, from_ctrlp, to_knots and from_knots    *)
(* are taken before realloc.  When realloc moves a block they point into   *)
(* the block that was freed, and the memmove of lines 549-552 does not     *)
(* reach the new block, which keeps what realloc put there.                *)
(***************************************************************************)
\* out of place: the copy into the spline nw that ts_bspline_new returned
ResizeInto(bspline, n, back, nw) ==
    LET dim == bspline.dim
        min_n_ctrlp == IF n < 0 THEN Wrap(bspline.n_ctrlp + n) ELSE bspline.n_ctrlp
        min_n_knots == IF n < 0 THEN Wrap(bspline.n_knots + n) ELSE bspline.n_knots
    IN  IF nw.err < 0 THEN nw
        ELSE [err |-> TS_SUCCESS,
              out |-> [nw.out EXCEPT
                         !.ctrlp = MemMove(@, IF ~back /\ n > 0 THEN n * dim ELSE 0,
                                           bspline.ctrlp,
                                           IF ~back /\ n < 0 THEN -n * dim ELSE 0,
                                           min_n_ctrlp * dim),
                         !.knots = MemMove(@, IF ~back /\ n > 0 THEN n ELSE 0,
                                           bspline.knots,
                                           IF ~back /\ n < 0 THEN -n ELSE 0,
                                           min_n_knots)],
              al |-> nw.al]

\* fault: ResizeMoved without the assignment of line 546, resized->n_knots
ResizeMovedStaleCount(bspline, n, back, mv, k0, r1, r2) ==
    IF ~r2.ok
    THEN [err |-> TS_MALLOC,
          out |-> [bspline EXCEPT !.ctrlp = r1.mem, !.knots = k0,
                                  !.n_ctrlp = Wrap(bspline.n_ctrlp + n)],
          al |-> r2.al]
    ELSE [err |-> TS_SUCCESS,
          out |-> [bspline EXCEPT
                     !.n_ctrlp = Wrap(bspline.n_ctrlp + n),
                     !.ctrlp = IF ~back /\ n > 0 /\ ~mv[1]
                               THEN MemMove(r1.mem, n * bspline.dim, r1.mem, 0,
                                            bspline.n_ctrlp * bspline.dim)
                               ELSE r1.mem,
                     !.knots = IF ~back /\ n > 0 /\ ~mv[2]
                               THEN MemMove(r2.mem, n, r2.mem, 0, bspline.n_knots)
                               ELSE r2.mem],
          al |-> r2.al]

\* in place, after both calls of realloc: r1 and r2 are what they returned,
\* k0 the knots before
ResizeMoved(bspline, n, back, mv, k0, r1, r2) ==
    IF ~r2.ok
    THEN [err |-> TS_MALLOC,
          out |-> [bspline EXCEPT !.ctrlp = r1.mem, !.knots = k0,
                                  !.n_ctrlp = Wrap(bspline.n_ctrlp + n)],
          al |-> r2.al]
    ELSE [err |-> TS_SUCCESS,
          out |-> [bspline EXCEPT
                     !.n_ctrlp = Wrap(bspline.n_ctrlp + n),
                     !.n_knots = Wrap(bspline.n_knots + n),
                     !.ctrlp = IF ~back /\ n > 0 /\ ~mv[1]
                               THEN MemMove(r1.mem, n * bspline.dim, r1.mem, 0,
                                            bspline.n_ctrlp * bspline.dim)
                               ELSE r1.mem,
                     !.knots = IF ~back /\ n > 0 /\ ~mv[2]
                               THEN MemMove(r2.mem, n, r2.mem, 0, bspline.n_knots)
                               ELSE r2.mem],
          al |-> r2.al]

\* in place, after the first call of realloc: c0 and k0 are the buffers after
\* the memmove of lines 532-535
ResizeRealloc(bspline, n, back, g, mv, c0, k0, r1) ==
    IF ~r1.ok
    THEN [err |-> TS_MALLOC, out |-> [bspline EXCEPT !.ctrlp = c0, !.knots = k0],
          al |-> r1.al]
    ELSE ResizeMoved(bspline, n, back, mv, k0, r1,
                     Realloc(k0, Wrap(bspline.n_knots + n), r1.al, g))

\* in place
ResizeInPlace(bspline, n, back, al, g, mv, c0, k0) ==
    ResizeRealloc(bspline, n, back, g, mv, c0, k0,
                  Realloc(c0, Wrap(bspline.n_ctrlp + n) * bspline.dim, al, g))

ts_bspline_resize(bspline, n, back, alias, al, g, mv) ==
    IF n = 0 /\ ~alias THEN ts_bspline_copy(bspline, FALSE, al, g)
    ELSE IF n = 0 THEN [err |-> TS_SUCCESS, out |-> bspline, al |-> al]
    ELSE LET deg == bspline.deg
             n_ctrlp == bspline.n_ctrlp
             new_n_ctrlp == Wrap(n_ctrlp + n)
             dim == bspline.dim
             Cleanup(e) == [err |-> e,
                            out |-> IF alias THEN bspline ELSE ts_bspline_default,
                            al |-> al]
         IN  IF new_n_ctrlp <= deg THEN Cleanup(TS_DEG_GE_NCTRLP)
             ELSE IF n < 0 /\ new_n_ctrlp > n_ctrlp THEN Cleanup(TS_OVER_UNDERFLOW)
             ELSE IF n > 0 /\ new_n_ctrlp < n_ctrlp THEN Cleanup(TS_OVER_UNDERFLOW)
             ELSE IF ~alias
             THEN ResizeInto(bspline, n, back,
                             ts_bspline_new(deg, dim, new_n_ctrlp, "TS_NONE", al, g))
             ELSE IF ~back /\ n < 0
             THEN ResizeInPlace(bspline, n, back, al, g, mv,
                                MemMove(bspline.ctrlp, 0, bspline.ctrlp, -n * dim,
                                        new_n_ctrlp * dim),
                                MemMove(bspline.knots, 0, bspline.knots, -n,
                                        Wrap(bspline.n_knots + n)))
             ELSE ResizeInPlace(bspline, n, back, al, g, mv, bspline.ctrlp, bspline.knots)

(***************************************************************************)
(* KnotInserter: ts_internal_bspline_insert_knot.  alias: bspline and     *)
(* result are the same object.  The result is [err, out, al]; out is the   *)
(* value of *result.                                                       *)
(***************************************************************************)
\* the loops a) and c): n times, copy one point of the net to ctrlp and step
\* both pointers; st is [ctrlp, from, to, stride]
RECURSIVE NetWalk(_, _, _, _, _)
NetWalk(st, points, dim, i, n) ==
    IF i >= n THEN st
    ELSE NetWalk([ctrlp |-> MemMove(st.ctrlp, st.to, points, st.from, dim),
                  from |-> st.from + st.stride,
                  to |-> st.to + dim,
                  stride |-> st.stride - dim], points, dim, i + 1, n)

\* 1. the control points and knots of the original, copied into result
InsertOriginal(bspline, deBoorNet, n, alias, result) ==
    LET deg == bspline.deg
        dim == bspline.dim
        k == deBoorNet.k
        cidx == k - deg + (deBoorNet.h + 1)
        kidx == k + 1
        c1 == MemMove(result.ctrlp, 0, IF alias THEN result.ctrlp ELSE bspline.ctrlp,
                      0, (k - deg) * dim)
        k1 == MemMove(result.knots, 0, IF alias THEN result.knots ELSE bspline.knots,
                      0, k + 1)
    IN  [result EXCEPT
           !.ctrlp = MemMove(c1, (cidx + n) * dim, IF alias THEN c1 ELSE bspline.ctrlp,
                             cidx * dim, (result.n_ctrlp - n - cidx) * dim),
           !.knots = MemMove(k1, kidx + n, IF alias THEN k1 ELSE bspline.knots,
                             kidx, result.n_knots - n - kidx)]

\* fault: InsertKnots with the loop d) one index early, from k on
InsertKnotsEarly(deBoorNet, n, al, result, c) ==
    [err |-> TS_SUCCESS,
     out |-> [result EXCEPT
                !.ctrlp = c.ctrlp,
                !.knots = [i \in 1 .. Len(@) |->
                             IF deBoorNet.k < i /\ i <= deBoorNet.k + n
                             THEN deBoorNet.u ELSE @[i]]],
     al |-> al]

\* 2. d): the knots u; c is the state after loop c)
InsertKnots(deBoorNet, n, al, result, c) ==
    [err |-> TS_SUCCESS,
     out |-> [result EXCEPT
                !.ctrlp = c.ctrlp,
                !.knots = [i \in 1 .. Len(@) |->
                             IF deBoorNet.k + 1 < i /\ i <= deBoorNet.k + 1 + n
                             THEN deBoorNet.u ELSE @[i]]],
     al |-> al]

\* 2. b) and c): a is the state after loop a), b the control points after b)
InsertRight(deBoorNet, n, alias, al, result, a, b) ==
    LET dim == deBoorNet.dim
        N == deBoorNet.h + 1
        stride == ToInt(Wrap(-(N - n + 1) * dim))
    IN  IF stride >= 0
        THEN [err |-> TS_OVER_UNDERFLOW,
              out |-> IF alias THEN [result EXCEPT !.ctrlp = b] ELSE ts_bspline_default,
              al |-> al]
        ELSE InsertKnots(deBoorNet, n, al, result,
                         NetWalk([ctrlp |-> b, from |-> a.from - dim,
                                  to |-> a.to + (N - n) * dim, stride |-> stride],
                                 deBoorNet.points, dim, 0, n))

\* fault: InsertMiddle without the memmove of b)
InsertMiddleSkipped(deBoorNet, n, alias, al, result, a) ==
    InsertRight(deBoorNet, n, alias, al, result, a, a.ctrlp)

\* 2. b): a is the state after loop a)
InsertMiddle(deBoorNet, n, alias, al, result, a) ==
    InsertRight(deBoorNet, n, alias, al, result, a,
                MemMove(a.ctrlp, a.to, deBoorNet.points, a.from,
                        (deBoorNet.h + 1 - n) * deBoorNet.dim))

\* 2. a): result holds the control points and knots of the original
InsertNet(bspline, deBoorNet, n, alias, al, result) ==
    LET dim == bspline.dim
        stride == ToInt(Wrap((deBoorNet.h + 1) * dim))
    IN  IF stride < 0
        THEN [err |-> TS_OVER_UNDERFLOW,
              out |-> IF alias THEN result ELSE ts_bspline_default,
              al |-> al]
        ELSE InsertMiddle(deBoorNet, n, alias, al, result,
                          NetWalk([ctrlp |-> result.ctrlp, from |-> 0,
                                   to |-> (deBoorNet.k - bspline.deg) * dim,
                                   stride |-> stride],
                                  deBoorNet.points, dim, 0, n))

\* after the call of ts_bspline_resize, which returned rs
InsertResized(bspline, deBoorNet, n, alias, rs) ==
    IF rs.err < 0 THEN rs
    ELSE IF n = 0 THEN [err |-> TS_SUCCESS, out |-> rs.out, al |-> rs.al]
    ELSE InsertNet(bspline, deBoorNet, n, alias, rs.al,
                   InsertOriginal(bspline, deBoorNet, n, alias, rs.out))

ts_internal_bspline_insert_knot(bspline, deBoorNet, n, alias, al, g, mv) ==
    IF Wrap(deBoorNet.s + n) > bspline.order
    THEN [err |-> TS_MULTIPLICITY,
          out |-> IF alias THEN bspline ELSE ts_bspline_default, al |-> al]
    ELSE IF ToInt(n) < 0
    THEN [err |-> TS_OVER_UNDERFLOW,
          out |-> IF alias THEN bspline ELSE ts_bspline_default, al |-> al]
    ELSE InsertResized(bspline, deBoorNet, n, alias,
                       ts_bspline_resize(bspline, ToInt(n), TRUE, alias, al, g, mv))

(***************************************************************************)
(* ts_bspline_insert_knot.  The result is [err, out, k, al]: the return   *)
(* value, the value of *result, the value of *k and the heap.              *)
(***************************************************************************)
\* after the call of ts_internal_bspline_insert_knot, which returned ins
InsertKnotK(k, ins) ==
    [err |-> ins.err, out |-> ins.out, k |-> IF ins.err >= 0 THEN k ELSE 0, al |-> ins.al]

\* after the call of ts_bspline_evaluate, which returned ev
InsertKnotAt(bspline, n, alias, g, mv, ev) ==
    IF ev.ret >= 0
    THEN InsertKnotK(Wrap(ev.net.k + n),
                     ts_internal_bspline_insert_knot(bspline, ev.net, n, alias,
                                                     ev.al, g, mv))
    ELSE [err |-> ev.ret, out |-> ts_bspline_default, k |-> 0, al |-> ev.al]

ts_bspline_insert_knot(bspline, u, n, alias, al, g, mv) ==
    InsertKnotAt(bspline, n, alias, g, mv, ts_bspline_evaluate(bspline, u, al, g))

(***************************************************************************)
(* Splitter: ts_bspline_split.  The result is [err, out, k, al].           *)
(***************************************************************************)
\* fault: SplitAt that inserts the knot h times, not h + 1 times
SplitAtShort(bspline, alias, g, mv, ev) ==
    IF ev.ret >= 1
    THEN IF alias
         THEN [err |-> ev.ret, out |-> bspline, k |-> ev.net.k, al |-> ev.al]
         ELSE InsertKnotK(ev.net.k, ts_bspline_copy(bspline, FALSE, ev.al, g))
    ELSE IF ev.ret = 0
    THEN InsertKnotK(Wrap(ev.net.k + ev.net.h),
                     ts_internal_bspline_insert_knot(bspline, ev.net, ev.net.h,
                                                     alias, ev.al, g, mv))
    ELSE [err |-> ev.ret,
          out |-> IF alias THEN bspline ELSE ts_bspline_default,
          k |-> 0, al |-> ev.al]

\* after the call of ts_bspline_evaluate, which returned ev
SplitAt(bspline, alias, g, mv, ev) ==
    IF ev.ret >= 1
    THEN IF alias
         THEN [err |-> ev.ret, out |-> bspline, k |-> ev.net.k, al |-> ev.al]
         ELSE InsertKnotK(ev.net.k, ts_bspline_copy(bspline, FALSE, ev.al, g))
    ELSE IF ev.ret = 0
    THEN InsertKnotK(Wrap(ev.net.k + ev.net.h + 1),
                     ts_internal_bspline_insert_knot(bspline, ev.net, ev.net.h + 1,
                                                     alias, ev.al, g, mv))
    ELSE [err |-> ev.ret,
          out |-> IF alias THEN bspline ELSE ts_bspline_default,
          k |-> 0, al |-> ev.al]

ts_bspline_split(bspline, u, alias, al, g, mv) ==
    SplitAt(bspline, alias, g, mv, ts_bspline_evaluate(bspline, u, al, g))

(***************************************************************************)
(* BezierDecomposer: ts_bspline_to_beziers.  Every step works in place on  *)
(* *beziers; st is [err, out, al], out the value of *beziers.              *)
(***************************************************************************)
\* the resize after a split that returned sp
BeziersTrim(sp, resize, back, g, mv) ==
    IF sp.err < 0 THEN [err |-> sp.err, out |-> sp.out, al |-> sp.al]
    ELSE ts_bspline_resize(sp.out, resize, back, TRUE, sp.al, g, mv)

\* fix first control point if necessary: after the split, which returned sp
BeziersFirstTrim(sp, deg, g, mv) ==
    BeziersTrim(sp, ToInt(Wrap(Wrap(-1 * deg) + Wrap(deg * 2 - sp.k))), FALSE, g, mv)

\* fix first control point if necessary
BeziersFirst(st, g, mv) ==
    IF st.err < 0 \/ ts_fequals(st.out.knots[1], st.out.knots[st.out.deg + 1]) THEN st
    ELSE BeziersFirstTrim(ts_bspline_split(st.out, st.out.knots[st.out.deg + 1], TRUE,
                                           st.al, g, mv),
                          st.out.deg, g, mv)

\* fix last control point if necessary: after the split, which returned sp
BeziersLastTrim(sp, deg, order, g, mv) ==
    BeziersTrim(sp,
                ToInt(Wrap(Wrap(-1 * deg) + Wrap(sp.k - Wrap(sp.out.n_knots - order)))),
                TRUE, g, mv)

\* fault: BeziersLast that never fixes the last control point
BeziersLastSkipped(st, g, mv) == st

\* fix last control point if necessary
BeziersLast(st, g, mv) ==
    IF st.err < 0
       \/ ts_fequals(st.out.knots[st.out.n_knots],
                     st.out.knots[Wrap(st.out.n_knots - st.out.order) + 1])
    THEN st
    ELSE BeziersLastTrim(ts_bspline_split(st.out,
                                          st.out.knots[Wrap(st.out.n_knots - st.out.order) + 1],
                                          TRUE, st.al, g, mv),
                         st.out.deg, st.out.order, g, mv)

\* the loop that splits at every interior knot, from index k on; BeziersStep
\* is the loop after the split of one turn, which returned sp
RECURSIVE BeziersLoop(_, _, _, _)
RECURSIVE BeziersStep(_, _, _)
BeziersLoop(st, k, g, mv) ==
    IF st.err < 0 THEN st
    ELSE IF k < Wrap(st.out.n_knots - st.out.order)
    THEN BeziersStep(ts_bspline_split(st.out, st.out.knots[k + 1], TRUE, st.al, g, mv),
                     g, mv)
    ELSE [err |-> TS_SUCCESS, out |-> st.out, al |-> st.al]

\* fault: BeziersStep that steps k twice
BeziersStepSkip(sp, g, mv) ==
    IF sp.err < 0 THEN [err |-> sp.err, out |-> sp.out, al |-> sp.al]
    ELSE BeziersLoop([err |-> TS_SUCCESS, out |-> sp.out, al |-> sp.al],
                     Wrap(sp.k + 2), g, mv)

BeziersStep(sp, g, mv) ==
    IF sp.err < 0 THEN [err |-> sp.err, out |-> sp.out, al |-> sp.al]
    ELSE BeziersLoop([err |-> TS_SUCCESS, out |-> sp.out, al |-> sp.al],
                     Wrap(sp.k + 1), g, mv)

ts_bspline_to_beziers(bspline, alias, al, g, mv) ==
    BeziersLoop(BeziersLast(BeziersFirst(
                    IF alias THEN [err |-> TS_SUCCESS, out |-> bspline, al |-> al]
                    ELSE ts_bspline_copy(bspline, FALSE, al, g), g, mv), g, mv),
                bspline.order, g, mv)

(***************************************************************************)
(* ts_bspline_equals.  The result is the return value, 1 or 0.  The loop   *)
(* over the control points runs over the indices below n_ctrlp.            *)
(***************************************************************************)
ts_bspline_equals(x, y) ==
    IF \/ x.deg # y.deg
       \/ x.order # y.order
       \/ x.dim # y.dim
       \/ x.n_ctrlp # y.n_ctrlp
       \/ x.n_knots # y.n_knots
    THEN 0
    ELSE IF \E i \in 0 .. x.n_ctrlp - 1 : ~ts_fequals(x.ctrlp[i + 1], y.ctrlp[i + 1])
    THEN 0
    ELSE IF \E i \in 0 .. x.n_knots - 1 : ~ts_fequals(x.knots[i + 1], y.knots[i + 1])
    THEN 0
    ELSE 1

(***************************************************************************)
(* The program: a caller that owns the tsBSpline objects bs[1] and bs[2]   *)
(* and one tsDeBoorNet, and calls the interface on them.  A call reads     *)
(* bs[src] and writes bs[dst]; src = dst is the call in place.             *)
(***************************************************************************)
VARIABLES
    bs,     \* bs[i]: the tsBSpline object i
    live,   \* live[i]: bs[i] is the output of a call that succeeded
    net,    \* the tsDeBoorNet object
    last,   \* the last call: its name, arguments, outputs, the objects before it
            \* and, for resize, what realloc did
    nops,   \* the number of calls made
    img     \* the image that fresh memory holds in this run

vars == <<bs, live, net, last, nops, img>>

Slots == {1, 2}

\* the parameters the caller evaluates at
TwoAbsError == RAdd(One, RMul(<<2, 1>>, FLT_MAX_ABS_ERROR))

Us == {<<-1, 1>>, Zero, <<1, 3>>, <<1, 2>>, One, TwoAbsError, <<3, 2>>, <<2, 1>>}

\* which allocation of a call fails (0: none)
Fails == 0 .. MaxFail

Moves == BOOLEAN \X BOOLEAN

\* ts_bspline_resize reads mv only when it grows a spline in place at the front;
\* ts_internal_bspline_insert_knot grows at the back and ts_bspline_to_beziers
\* shrinks, so that their outcome is the same for every mv
NoMove == <<FALSE, FALSE>>

NoCall ==
    [op |-> "none", src |-> 1, dst |-> 1, u |-> Zero, n |-> 0, back |-> FALSE,
     type |-> "TS_NONE", mv |-> NoMove, ret |-> 0, k |-> 0,
     pre |-> [i \in Slots |-> ts_bspline_default]]

Init ==
    /\ bs = [i \in Slots |-> ts_bspline_default]
    /\ live = [i \in Slots |-> FALSE]
    /\ net = ts_deboornet_default
    /\ last = NoCall
    /\ nops = 0
    /\ img \in Images

\* a call may be made on bs[i]
Ready(i) == nops < MaxOps /\ live[i] /\ bs[i].n_ctrlp <= MaxCtrlp

\* the objects and the record of a call that returned ret with *dst = out;
\* lv: bs[dst] is the output of a call that succeeded
Return(op, src, dst, ret, out, lv, rec) ==
    /\ bs' = [bs EXCEPT ![dst] = out]
    /\ live' = [live EXCEPT ![dst] = lv]
    /\ last' = [rec EXCEPT !.op = op, !.src = src, !.dst = dst, !.ret = ret, !.pre = bs]
    /\ nops' = nops + 1
    /\ img' = img

\* The caller makes its first spline in bs[1] and derives the others from it.
New(dst) ==
    /\ nops < MaxOps
    /\ dst = 1
    /\ \A i \in Slots : bs[i] = ts_bspline_default
    /\ \E deg \in 0 .. MaxDeg, dim \in 0 .. MaxDim, n_ctrlp \in 0 .. MaxNewCtrlp,
          type \in BSplineTypes, al \in Fails :
          \E r \in {ts_bspline_new(deg, dim, n_ctrlp, type, al, img)} :
             Return("new", dst, dst, r.err, r.out, r.err >= 0, [NoCall EXCEPT !.n = n_ctrlp, !.type = type])
    /\ UNCHANGED net

Copy(src, dst) ==
    /\ Ready(src)
    /\ \E al \in Fails :
          \E r \in {ts_bspline_copy(bs[src], src = dst, al, img)} :
             Return("copy", src, dst, r.err, r.out, r.err >= 0, NoCall)
    /\ UNCHANGED net

SetupKnots(src, dst) ==
    /\ Ready(src)
    /\ \E type \in BSplineTypes, al \in Fails :
          \E r \in {ts_bspline_setup_knots(bs[src], type, src = dst, al, img)} :
             Return("setup_knots", src, dst, r.err, r.out, r.err >= 0, [NoCall EXCEPT !.type = type])
    /\ UNCHANGED net

Evaluate(src) ==
    /\ Ready(src)
    /\ \E u \in Us, al \in Fails :
          \E r \in {ts_bspline_evaluate(bs[src], u, al, img)} :
             /\ net' = r.net
             /\ Return("evaluate", src, src, r.ret, bs[src], TRUE, [NoCall EXCEPT !.u = u])

InsertKnot(src, dst) ==
    /\ Ready(src)
    /\ \E u \in Us, n \in 0 .. MaxInsert, al \in Fails :
          \E r \in {ts_bspline_insert_knot(bs[src], u, n, src = dst, al, img, NoMove)} :
             Return("insert_knot", src, dst, r.err, r.out, r.err >= 0,
                    [NoCall EXCEPT !.u = u, !.n = n, !.k = r.k])
    /\ UNCHANGED net

Resize(src, dst) ==
    /\ Ready(src)
    /\ \E n \in -MaxResize .. MaxResize, back \in BOOLEAN, al \in Fails, mv \in Moves :
          \E r \in {ts_bspline_resize(bs[src], n, back, src = dst, al, img, mv)} :
             Return("resize", src, dst, r.err, r.out, r.err >= 0,
                    [NoCall EXCEPT !.n = n, !.back = back, !.mv = mv])
    /\ UNCHANGED net

Split(src, dst) ==
    /\ Ready(src)
    /\ \E u \in Us, al \in Fails :
          \E r \in {ts_bspline_split(bs[src], u, src = dst, al, img, NoMove)} :
             Return("split", src, dst, r.err, r.out, r.err >= 0,
                    [NoCall EXCEPT !.u = u, !.k = r.k])
    /\ UNCHANGED net

\* On a knot vector that is not weakly increasing the loop of ts_bspline_to_beziers
\* need not end; the caller passes a spline whose knots are weakly increasing.
ToBeziers(src, dst) ==
    /\ Ready(src)
    /\ Sorted(bs[src])
    /\ \E al \in Fails :
          \E r \in {ts_bspline_to_beziers(bs[src], src = dst, al, img, NoMove)} :
             Return("to_beziers", src, dst, r.err, r.out, r.err >= 0, NoCall)
    /\ UNCHANGED net

Free(i) ==
    /\ nops < MaxOps
    /\ bs[i] # ts_bspline_default
    /\ Return("free", i, i, 0, ts_bspline_free(bs[i]), FALSE, NoCall)
    /\ UNCHANGED net

Next ==
    \/ \E dst \in Slots : New(dst)
    \/ \E src \in Slots, dst \in Slots : Copy(src, dst)
    \/ \E src \in Slots, dst \in Slots : SetupKnots(src, dst)
    \/ \E src \in Slots : Evaluate(src)
    \/ \E src \in Slots, dst \in Slots : InsertKnot(src, dst)
    \/ \E src \in Slots, dst \in Slots : Resize(src, dst)
    \/ \E src \in Slots, dst \in Slots : Split(src, dst)
    \/ \E src \in Slots, dst \in Slots : ToBeziers(src, dst)
    \/ \E i \in Slots : Free(i)

Spec == Init /\ [][Next]_vars

(***************************************************************************)
(* The round trip: the caller makes a spline in bs[1], derives bs[2] from  *)
(* it, may change one scalar of the control points of bs[2], and compares  *)
(* the two with ts_bspline_equals.                                         *)
(***************************************************************************)
\* what the caller adds to a scalar: more than the tolerances of ts_fequals,
\* and less than FLT_MAX_ABS_ERROR
Changes == {One, <<1, 100000000>>}

\* the caller writes bs[dst].ctrlp[idx]
SetCtrlp(dst) ==
    /\ nops + 1 < MaxEqualsOps
    /\ \A i \in Slots : live[i]
    /\ last.op # "set"
    /\ \E idx \in 0 .. Len(bs[dst].ctrlp) - 1, c \in Changes :
          Return("set", dst, dst, 0,
                 [bs[dst] EXCEPT !.ctrlp[idx + 1] = RAdd(@, c)], TRUE,
                 [NoCall EXCEPT !.n = idx, !.u = c])
    /\ UNCHANGED net

Equals(src, dst) ==
    /\ nops < MaxEqualsOps
    /\ live[src] /\ live[dst]
    /\ last.op # "equals"
    /\ Return("equals", src, dst, ts_bspline_equals(bs[src], bs[dst]), bs[dst], TRUE, NoCall)
    /\ UNCHANGED net

NextEquals ==
    \/ New(1)
    \/ Copy(1, 2)
    \/ SetupKnots(1, 2)
    \/ Resize(1, 2)
    \/ SetCtrlp(2)
    \/ \E src \in Slots, dst \in Slots : Equals(src, dst)

SpecEquals == Init /\ [][NextEquals]_vars

(***************************************************************************)
(* What the properties are stated about: the input and the output of the   *)
(* last call.                                                              *)
(***************************************************************************)
\* the input of the last call, as it was before the call
Pre == last.pre[last.src]

\* the output of the last call
Post == bs[last.dst]

\* control point i (from 0) of bspline
Point(bspline, i) == SubSeq(bspline.ctrlp, i * bspline.dim + 1, (i + 1) * bspline.dim)

\* the evaluation of bspline at u when no allocation fails
EvalOf(bspline, u) == ts_bspline_evaluate(bspline, u, 0, 0)

\* the number of knots of bspline that ts_fequals takes for u
Multiplicity(bspline, u) ==
    Cardinality({i \in 1 .. bspline.n_knots : ts_fequals(bspline.knots[i], u)})

\* the parameters at which two curves are compared
Vs == Us \cup {<<1, 4>>, <<2, 3>>, <<3, 4>>, <<5, 4>>, <<7, 4>>, <<5, 2>>, <<3, 1>>, <<7, 2>>}

WellFormed(bspline) ==
    /\ bspline.order = bspline.deg + 1
    /\ bspline.n_knots = bspline.n_ctrlp + bspline.order
    /\ bspline.n_ctrlp > bspline.deg
    /\ bspline.dim >= 1

\* C1: every spline that a successful call of new, copy, setup_knots, resize,
\* insert_knot, split or to_beziers returned, in place or out of place, has
\* order = deg + 1, n_knots = n_ctrlp + order, n_ctrlp > deg and dim >= 1.
C1_StructuralInvariants == \A i \in Slots : live[i] => WellFormed(bs[i])

C1_Witness ==
    /\ last.op = "resize" /\ last.ret >= 0 /\ last.src = last.dst /\ last.n < 0
    /\ live[last.dst] /\ Post.n_ctrlp = Pre.n_ctrlp + last.n

\* the curves of b1 and b2 agree at v, when b1 is defined there
SamePoint(b1, b2, v) ==
    EvalOf(b1, v).ret >= 0 =>
        /\ EvalOf(b2, v).ret >= 0
        /\ NetResult(EvalOf(b2, v).net) = NetResult(EvalOf(b1, v).net)

\* C2: when insert_knot(B, u, n) or split(B, u) succeeds on a spline B with
\* weakly increasing knots, the result evaluates to the same point as B at
\* every parameter at which B can be evaluated.
C2_InsertPreservesCurve ==
    (last.op \in {"insert_knot", "split"} /\ last.ret >= 0 /\ Sorted(Pre)) =>
        \A v \in Vs : SamePoint(Pre, Post, v)

C2_Witness ==
    /\ last.op = "insert_knot" /\ last.ret >= 0 /\ Sorted(Pre)
    /\ last.n >= 2 /\ Post.dim = 2 /\ Post.n_ctrlp = Pre.n_ctrlp + last.n
    /\ \E v \in Vs : v # last.u /\ EvalOf(Pre, v).ret = 0
    /\ \E i \in 1 .. Len(Pre.ctrlp) : Pre.ctrlp[i] # Pre.ctrlp[1]

\* C3: when insert_knot(B, u, n) succeeds, with net the evaluation of B at u:
\* the result has n more control points and n more knots; its knots are the
\* knots 0 .. net.k of B, then n times net.u, then the knots of B from
\* net.k + 1 on, and they are weakly increasing if those of B are; the control
\* points of B below net.k - deg are unchanged, those from
\* net.k - deg + net.h + 1 on are found n places higher.
C3_InsertLayout ==
    (last.op = "insert_knot" /\ last.ret >= 0) =>
        LET n == last.n
            k == EvalOf(Pre, last.u).net.k
            h == EvalOf(Pre, last.u).net.h
            u == EvalOf(Pre, last.u).net.u
        IN  /\ Post.n_ctrlp = Pre.n_ctrlp + n
            /\ Post.n_knots = Pre.n_knots + n
            /\ Len(Post.ctrlp) = Post.n_ctrlp * Post.dim
            /\ Len(Post.knots) = Post.n_knots
            /\ \A i \in 0 .. k : Post.knots[i + 1] = Pre.knots[i + 1]
            /\ \A i \in k + 1 .. k + n : Post.knots[i + 1] = u
            /\ \A i \in k + 1 .. Pre.n_knots - 1 : Post.knots[i + n + 1] = Pre.knots[i + 1]
            /\ Sorted(Pre) => Sorted(Post)
            /\ \A i \in 0 .. k - Pre.deg - 1 : Point(Post, i) = Point(Pre, i)
            /\ \A i \in k - Pre.deg + h + 1 .. Pre.n_ctrlp - 1 :
                  Point(Post, i + n) = Point(Pre, i)

C3_Witness ==
    /\ last.op = "insert_knot" /\ last.ret >= 0 /\ last.n >= 1 /\ Sorted(Pre)
    /\ EvalOf(Pre, last.u).net.k - Pre.deg >= 1
    /\ EvalOf(Pre, last.u).net.k - Pre.deg + EvalOf(Pre, last.u).net.h + 1 < Pre.n_ctrlp
    /\ Post.knots[EvalOf(Pre, last.u).net.k + 2] = last.u

\* C4: when split(B, u) succeeds on a spline B with weakly increasing knots:
\* if the evaluation of B at u returned 0, exactly order knots of the result
\* are equal to u, and the returned k is net.k + net.h + 1 and is the index of
\* the last of them; if it returned 1 or 2, the result has the control points
\* and knots of B and the returned k is net.k.
C4_SplitMultiplicity ==
    (last.op = "split" /\ last.ret >= 0 /\ Sorted(Pre)) =>
        LET ret == EvalOf(Pre, last.u).ret
            k == EvalOf(Pre, last.u).net.k
            h == EvalOf(Pre, last.u).net.h
        IN  /\ ret = 0 =>
                /\ Multiplicity(Post, last.u) = Post.order
                /\ last.k = k + h + 1
                /\ ts_fequals(Post.knots[last.k + 1], last.u)
                /\ \A i \in last.k + 1 .. Post.n_knots - 1 :
                      ~ts_fequals(Post.knots[i + 1], last.u)
            /\ ret \in {1, 2} =>
                /\ Post.ctrlp = Pre.ctrlp
                /\ Post.knots = Pre.knots
                /\ last.k = k

C4_Witness ==
    /\ last.op = "split" /\ last.ret >= 0 /\ Sorted(Pre)
    /\ EvalOf(Pre, last.u).ret = 0
    /\ EvalOf(Pre, last.u).net.s = 1
    /\ Pre.deg = 2
    /\ Multiplicity(Post, last.u) = 3

\* C5: when to_beziers(B) succeeds on a spline B with weakly increasing knots,
\* every knot value of the result strictly between its first and its last knot
\* occurs among its knots exactly order times.
C5_BeziersInteriorMultiplicity ==
    (last.op = "to_beziers" /\ last.ret >= 0 /\ Sorted(Pre)) =>
        \A i \in 1 .. Post.n_knots :
            (RLess(Post.knots[1], Post.knots[i]) /\ RLess(Post.knots[i], Post.knots[Post.n_knots])) =>
                Multiplicity(Post, Post.knots[i]) = Post.order

C5_Witness ==
    /\ last.op = "to_beziers" /\ last.ret >= 0 /\ Sorted(Pre)
    /\ Pre.deg = 2
    /\ \E i \in 1 .. Pre.n_knots :
          /\ RLess(Pre.knots[1], Pre.knots[i])
          /\ RLess(Pre.knots[i], Pre.knots[Pre.n_knots])
          /\ Multiplicity(Pre, Pre.knots[i]) = 1
          /\ Multiplicity(Post, Pre.knots[i]) = 3

\* the number of non-empty knot spans of bspline
Segments(bspline) ==
    Cardinality({bspline.knots[i] : i \in 1 .. bspline.n_knots}) - 1

\* the knots of bspline are weakly increasing, ts_fequals tells any two
\* different knots apart, and the domain is not a single point
Regular(bspline) ==
    /\ Sorted(bspline)
    /\ \A i, j \in 1 .. bspline.n_knots :
          bspline.knots[i] = bspline.knots[j]
          \/ ~ts_fequals(bspline.knots[i], bspline.knots[j])
    /\ bspline.knots[bspline.deg + 1] # bspline.knots[bspline.n_knots - bspline.deg]

\* C6, as the specification states it: when to_beziers(B) succeeds with
\* deg >= 1 on a regular spline B, the number of segments of the result is
\* (n_knots' - 2 * order) / deg + 1.
C6_SegmentsByDeg ==
    (last.op = "to_beziers" /\ last.ret >= 0 /\ Pre.deg >= 1 /\ Regular(Pre)) =>
        Post.deg * (Segments(Post) - 1) = Post.n_knots - 2 * Post.order

\* C6, amended: when to_beziers(B) succeeds with deg >= 1 on a regular spline
\* B, the number of segments of the result is
\* (n_knots' - 2 * order) / order + 1, which is n_ctrlp' / order.
C6_SegmentsByOrder ==
    (last.op = "to_beziers" /\ last.ret >= 0 /\ Pre.deg >= 1 /\ Regular(Pre)) =>
        /\ Post.order * (Segments(Post) - 1) = Post.n_knots - 2 * Post.order
        /\ Post.order * Segments(Post) = Post.n_ctrlp

C6_Witness ==
    /\ last.op = "to_beziers" /\ last.ret >= 0 /\ Pre.deg = 2 /\ Regular(Pre)
    /\ Segments(Post) = 2
    /\ Post.n_knots = 9
    /\ Post.n_knots > Pre.n_knots

\* the knots of bspline are those ts_bspline_setup_knots writes for TS_CLAMPED
Clamped(bspline) ==
    bspline.n_knots >= 2 /\ bspline.knots = FillKnots(bspline, "TS_CLAMPED").knots

Outside(bspline, u) ==
    RLess(u, bspline.knots[1]) \/ RLess(bspline.knots[bspline.n_knots], u)

\* u is outside, and ts_fequals does not take it for the knot it is beyond
FarOutside(bspline, u) ==
    \/ RLess(u, bspline.knots[1]) /\ ~ts_fequals(u, bspline.knots[1])
    \/ RLess(bspline.knots[bspline.n_knots], u)
       /\ ~ts_fequals(u, bspline.knots[bspline.n_knots])

\* C8, as the specification states it: the evaluation of a spline with weakly
\* increasing knots at a u below its first knot or above its last knot returns
\* TS_U_UNDEFINED, u = 1 + 2 * FLT_MAX_ABS_ERROR on a clamped spline included,
\* and a failed evaluation leaves the net empty.
C8_OutsideUndefined ==
    (last.op = "evaluate" /\ Sorted(Pre)) =>
        /\ Outside(Pre, last.u) => last.ret = TS_U_UNDEFINED
        /\ last.ret < 0 => net = ts_deboornet_default

\* C8, amended: the evaluation of a spline with weakly increasing knots at a u
\* below its first knot or above its last knot, which ts_fequals does not take
\* for that knot, returns TS_U_UNDEFINED; a failed evaluation leaves the net
\* empty; ts_fequals takes u = 1 + 2 * FLT_MAX_ABS_ERROR for the knot 1, and
\* the evaluation at it of a clamped spline, none of whose interior knots
\* ts_fequals takes for 1, returns 1 with the last control point, when the net
\* can be allocated.
C8_FarOutsideUndefined ==
    (last.op = "evaluate" /\ Sorted(Pre)) =>
        /\ FarOutside(Pre, last.u) => last.ret = TS_U_UNDEFINED
        /\ last.ret < 0 => net = ts_deboornet_default
        /\ (/\ Clamped(Pre) /\ Multiplicity(Pre, One) = Pre.order
            /\ last.u = TwoAbsError /\ last.ret # TS_MALLOC) =>
              last.ret = 1 /\ NetResult(net) = Point(Pre, Pre.n_ctrlp - 1)

C8_Witness ==
    /\ last.op = "evaluate" /\ Sorted(Pre) /\ Clamped(Pre)
    /\ RLess(Pre.knots[Pre.n_knots], last.u)
    /\ ~ts_fequals(last.u, Pre.knots[Pre.n_knots])
    /\ last.ret = TS_U_UNDEFINED
    /\ net = ts_deboornet_default

\* C9: when new, copy, resize, insert_knot, split or to_beziers returns an
\* error and its output is not its input, the output is empty and the input
\* is as it was before the call.
C9_FailureLeavesOutputEmpty ==
    (/\ last.op \in {"new", "copy", "resize", "insert_knot", "split", "to_beziers"}
     /\ last.ret < 0
     /\ (last.op = "new" \/ last.src # last.dst)) =>
        /\ bs[last.dst] = ts_bspline_default
        /\ last.op # "new" => bs[last.src] = last.pre[last.src]

\* C10: when resize(B, n, back) succeeds, out of place or in place, whether
\* or not realloc moves a block: with back set, the first min(n_ctrlp,
\* n_ctrlp + n) control points and min(n_knots, n_knots + n) knots are
\* unchanged; with back clear and n > 0, control point and knot i of B are at
\* index i + n; with back clear and n < 0, control point and knot i >= -n of B
\* are at index i + n.
C10_ResizeKeepsData ==
    (last.op = "resize" /\ last.ret >= 0) =>
        LET n == last.n
            shift == IF last.back THEN 0 ELSE n
            from == IF ~last.back /\ n < 0 THEN -n ELSE 0
            nc == IF last.back /\ n < 0 THEN Pre.n_ctrlp + n ELSE Pre.n_ctrlp
            nk == IF last.back /\ n < 0 THEN Pre.n_knots + n ELSE Pre.n_knots
        IN  /\ Post.n_ctrlp = Pre.n_ctrlp + n
            /\ Post.n_knots = Pre.n_knots + n
            /\ \A i \in from .. nc - 1 : Point(Post, i + shift) = Point(Pre, i)
            /\ \A i \in from .. nk - 1 : Post.knots[i + shift + 1] = Pre.knots[i + 1]

\* the de Boor steps of the evaluation of bspline at u read knots and control
\* points inside the buffers and divide by a denominator that is not zero
SafeSteps(bspline, u) ==
    LET ks == FindSpan(bspline.knots, bspline.n_knots, u, 0, 0)
        head == EvaluateHead(bspline, u, ks)
    IN  (~EvaluateUndefined(bspline, ks) /\ ks[2] <= bspline.deg) =>
            /\ \A c \in head.k - bspline.deg .. head.k - head.s :
                  0 <= c /\ c < bspline.n_ctrlp
            /\ \A st \in DeBoorSteps(bspline, head) :
                  /\ 0 <= st.i /\ st.i < st.j /\ st.j < bspline.n_knots
                  /\ RSub(bspline.knots[st.j + 1], bspline.knots[st.i + 1]) # Zero
                  /\ ~IsNaN(RSub(bspline.knots[st.j + 1], bspline.knots[st.i + 1]))

\* C11: for every spline a successful call returned whose knots are weakly
\* increasing, and every u that passes the domain check of ts_bspline_evaluate
\* with multiplicity s <= deg, every de Boor step (r in 1 .. h, i in
\* fst + r .. lst) divides by a denominator knots[i + deg - r + 1] - knots[i]
\* that is not zero, every knot index read is below n_knots and every control
\* point index read (fst .. lst) is below n_ctrlp.
C11_DeBoorStepsSafe ==
    \A b \in Slots :
        (live[b] /\ Sorted(bs[b])) => \A u \in Vs : SafeSteps(bs[b], u)

C11_Witness ==
    /\ last.op = "evaluate" /\ last.ret = 0 /\ Sorted(Pre) /\ live[last.src]
    /\ Pre.deg = 2 /\ net.h = 2 /\ net.n_points = 6
    /\ Cardinality(DeBoorSteps(Pre, net)) = 3
    /\ Pre.n_ctrlp > Pre.order
    /\ SafeSteps(Pre, last.u)

\* x and y have the same fields, control points and knots, up to ts_fequals
Agree(x, y) ==
    /\ x.deg = y.deg /\ x.order = y.order /\ x.dim = y.dim
    /\ x.n_ctrlp = y.n_ctrlp /\ x.n_knots = y.n_knots
    /\ \A i \in 1 .. x.n_ctrlp * x.dim : ts_fequals(x.ctrlp[i], y.ctrlp[i])
    /\ \A i \in 1 .. x.n_knots : ts_fequals(x.knots[i], y.knots[i])

\* C12: ts_bspline_equals(x, y) returns 1 if and only if x and y agree on
\* deg, order, dim, n_ctrlp and n_knots, on every one of the n_ctrlp * dim
\* scalars of the control points and on every knot, up to ts_fequals; so it
\* returns 1 for a spline and its copy, and 0 once one coordinate of the copy
\* was changed by more than the tolerance.
C12_EqualsIffAgree ==
    last.op = "equals" => (last.ret = 1 <=> Agree(bs[last.src], bs[last.dst]))

=============================================================================
